---------------------------- MODULE Spec2Model ----------------------------
(***************************************************************************)
(* State-machine model of 06_recurrence/language_model.ipynb: the corpus   *)
(* batchification of cell 4, the trainer of cell 6, evaluate() of cell 7   *)
(* and train() of cell 8.                                                  *)
(*                                                                         *)
(* Numbers.  A learning rate is held as an integer number of LrUnit-ths,   *)
(* so that the multiplication by 0.25 (exact in binary floating point) is  *)
(* an exact integer division by 4.  An average loss total_L / ntotal is    *)
(* held as the fraction [num, den] and compared by cross-multiplication;   *)
(* float("Inf") is the fraction 1/0.                                       *)
(***************************************************************************)
EXTENDS Integers, Sequences, FiniteSets

\* ------------------------------------------------------------- bounds
MaxEpochs == 3
MaxLoss == 1
MaxWindows == 2
MaxTokens == 4600

\* ------------------------------------------------- program constants
batch_size == 64
bptt == 35
global_lr == 20

LrUnit == 4 ^ MaxEpochs
Segments == {"train", "val", "test"}

VARIABLES
    pc,          \* position of the notebook's single thread of control
    T,           \* T[s]: number of tokens of corpus segment s
    data,        \* data[s]: the batches of segment s, each the shape of its input
    trainer_lr,  \* learning rate held by the gluon.Trainer
    params,      \* number of optimizer steps applied to the model parameters
    stepLr,      \* learning rate the latest optimizer step used
    lr,          \* train(): local lr
    lr_arg,      \* train(): the lr argument as passed
    epochs,      \* train(): the epochs argument
    epoch,       \* train(): loop variable
    best_val,    \* train(): best_val
    val_L,       \* train(): val_L
    test_L,      \* train(): test_L
    hidden,      \* hidden state held by the running train_one_epoch / evaluate
    fed,         \* hidden state handed to the latest model(data, hidden) call
    callId,      \* number of train_one_epoch / evaluate calls started
    i,           \* batches consumed by the running loop
    evalSeg,     \* segment the running evaluate() iterates
    total_L,     \* evaluate(): total_L
    ntotal,      \* evaluate(): ntotal
    log,         \* what the current epoch has done so far
    epochStart,  \* best_val, lr, trainer_lr and params when the epoch began
    minSeen,     \* least validation loss returned so far in this run
    nonImprov    \* number of epochs so far whose validation loss did not improve

vars == <<pc, T, data, trainer_lr, params, stepLr, lr, lr_arg, epochs, epoch,
          best_val, val_L, test_L, hidden, fed, callId, i, evalSeg, total_L,
          ntotal, log, epochStart, minSeen, nonImprov>>

\* ------------------------------------------------------------ numbers
Inf == [num |-> 1, den |-> 0]
Less(a, b) == a.num * b.den < b.num * a.den
Same(a, b) == a.num * b.den = b.num * a.den
MinOf(a, b) == IF Less(b, a) THEN b ELSE a

\* total_L / ntotal: Python raises ZeroDivisionError on a zero divisor.
DivideUnchecked(a, b) == [ok |-> TRUE, num |-> a, den |-> b]
Divide(a, b) ==
    IF b = 0 THEN [ok |-> FALSE, num |-> 0, den |-> 0]
             ELSE [ok |-> TRUE, num |-> a, den |-> b]

\* -------------------------------------------------------- batchify
\* CorpusBPTTBatchify(vocab, bptt, batch_size, last_batch='discard'): the
\* corpus is cut to batch_size streams of floor(T / batch_size) tokens, and
\* the streams are sliced into windows of bptt + 1 tokens that overlap by one
\* (the last token of a window is the target of its last input).  Only whole
\* windows are produced.
StreamLen(t) == t \div batch_size

NumWindowsNoShift(n) == n \div bptt
NumWindows(n) ==
    IF n < bptt + 1 THEN 0 ELSE (n - (bptt + 1)) \div bptt + 1

\* Each batch is (data, target), both of shape (bptt, batch_size).
bptt_batchify(t) ==
    [b \in 1..NumWindows(StreamLen(t)) |-> <<bptt, batch_size>>]

\* L.size: loss(output.reshape(-3, -1), target.reshape(-1)) has one entry per
\* token of the batch.
LSizePerStream(shape) == shape[2]
LSize(shape) == shape[1] * shape[2]

\* ---------------------------------------------------- hidden state
\* A hidden state is named by the call and batch that produced it; graph says
\* whether it still carries computation history.
zeros(bs) == [call |-> 0, n |-> 0, graph |-> FALSE, bs |-> bs]

\* model.begin_state(batch_size=batch_size, func=mx.nd.zeros, ctx=ctx)
begin_state_stale(bs) == hidden
begin_state(bs) == zeros(bs)

detach(h) == [h EXCEPT !.graph = FALSE]

Forward(h, c, n, recording) ==
    [call |-> c, n |-> n, graph |-> recording, bs |-> h.bs]

\* ------------------------------------------------------ train() parts
ImprovesOrEqual(v, best) == ~Less(best, v)
Improves(v, best) == Less(v, best)

DecayLrHalf(l) == l \div 2
DecayLr(l) == l \div 4

KeepBest(v, best) == best
NewBest(v, best) == v


\* ------------------------------------------------------------ inputs
\* A corpus segment long enough for exactly w batches.
SegTokens(w) == batch_size * (bptt * w + 1)
TrainLens == {SegTokens(w) : w \in 1..MaxWindows}
EvalLens == {SegTokens(w) : w \in 0..MaxWindows}
LrArgs == {global_lr * LrUnit, (global_lr \div 2) * LrUnit}
LossVals == 0..MaxLoss

NoSnapshot == [best |-> Inf, lr |-> 0, tlr |-> 0, params |-> 0, epoch |-> 0]

\* The state after cells 1-3 and 5-6: the corpus is loaded, the trainer is
\* constructed with the notebook's global lr.
InitWith(tr, va, te) ==
    /\ pc = "cell4"
    /\ T = [s \in Segments |->
              IF s = "train" THEN tr ELSE IF s = "val" THEN va ELSE te]
    /\ data = [s \in Segments |-> <<>>]
    /\ trainer_lr = global_lr * LrUnit
    /\ params = 0
    /\ stepLr = 0
    /\ lr = 0
    /\ lr_arg = 0
    /\ epochs = 0
    /\ epoch = 0
    /\ best_val = Inf
    /\ val_L = Inf
    /\ test_L = Inf
    /\ hidden = zeros(batch_size)
    /\ fed = zeros(batch_size)
    /\ callId = 0
    /\ i = 0
    /\ evalSeg = "val"
    /\ total_L = 0
    /\ ntotal = 0
    /\ log = <<>>
    /\ epochStart = NoSnapshot
    /\ minSeen = Inf
    /\ nonImprov = 0

Init == \E tr \in TrainLens, va \in EvalLens, te \in EvalLens : InitWith(tr, va, te)

\* ------------------------------------------------------------ cell 4
Batchify ==
    /\ pc = "cell4"
    /\ data' = [s \in Segments |-> bptt_batchify(T[s])]
    /\ pc' = "cell9"
    /\ UNCHANGED <<T, trainer_lr, params, stepLr, lr, lr_arg, epochs, epoch,
                   best_val, val_L, test_L, hidden, fed, callId, i, evalSeg,
                   total_L, ntotal, log, epochStart, minSeen, nonImprov>>

\* ----------------------------------------------------------- train()
\* for epoch in range(epochs): the next iteration, or the end of the loop.
LoopTo(e, n) == IF e < n THEN "epoch_start" ELSE "done"

\* train(model, ..., epochs, lr): entry, up to the head of the epoch loop.
TrainCall ==
    /\ pc = "cell9"
    /\ \E a \in LrArgs, n \in 0..MaxEpochs :
          /\ lr' = a
          /\ lr_arg' = a
          /\ epochs' = n
          /\ pc' = LoopTo(0, n)
    /\ best_val' = Inf
    /\ epoch' = 0
    /\ UNCHANGED <<T, data, trainer_lr, params, stepLr, val_L, test_L, hidden,
                   fed, callId, i, evalSeg, total_L, ntotal, log, epochStart,
                   minSeen, nonImprov>>

\* train_one_epoch(...): entry; the hidden state is reset.
TrainOneEpochBegin ==
    /\ pc = "epoch_start"
    /\ hidden' = begin_state(batch_size)
    /\ callId' = callId + 1
    /\ i' = 0
    /\ log' = <<"train">>
    /\ epochStart' = [best |-> best_val, lr |-> lr, tlr |-> trainer_lr,
                      params |-> params, epoch |-> epoch]
    /\ pc' = "train_loop"
    /\ UNCHANGED <<T, data, trainer_lr, params, stepLr, lr, lr_arg, epochs,
                   epoch, best_val, val_L, test_L, fed, evalSeg, total_L,
                   ntotal, minSeen, nonImprov>>

\* One training batch: detach, forward under autograd.record, backward,
\* clip, trainer.step.
TrainBatch ==
    /\ pc = "train_loop"
    /\ i < Len(data["train"])
    /\ fed' = detach(hidden)
    /\ hidden' = Forward(detach(hidden), callId, i + 1, TRUE)
    /\ params' = params + 1
    /\ stepLr' = trainer_lr
    /\ i' = i + 1
    /\ UNCHANGED <<pc, T, data, trainer_lr, lr, lr_arg, epochs, epoch, best_val,
                   val_L, test_L, callId, evalSeg, total_L, ntotal, log,
                   epochStart, minSeen, nonImprov>>

\* train_one_epoch returns; mx.nd.waitall(); evaluate(model, val_data, ...)
\* is about to be called.
TrainOneEpochEnd ==
    /\ pc = "train_loop"
    /\ i = Len(data["train"])
    /\ pc' = "val_call"
    /\ UNCHANGED <<T, data, trainer_lr, params, stepLr, lr, lr_arg, epochs,
                   epoch, best_val, val_L, test_L, hidden, fed, callId, i,
                   evalSeg, total_L, ntotal, log, epochStart, minSeen,
                   nonImprov>>

\* ---------------------------------------------------------- evaluate()
\* Entry: total_L = 0.0, ntotal = 0, hidden = model.begin_state(...).
EvaluateBegin ==
    /\ pc \in {"val_call", "test_call"}
    /\ evalSeg' = IF pc = "val_call" THEN "val" ELSE "test"
    /\ total_L' = 0
    /\ ntotal' = 0
    /\ hidden' = begin_state(batch_size)
    /\ callId' = callId + 1
    /\ i' = 0
    /\ log' = Append(log, IF pc = "val_call" THEN "val" ELSE "test")
    /\ pc' = "eval_loop"
    /\ UNCHANGED <<T, data, trainer_lr, params, stepLr, lr, lr_arg, epochs,
                   epoch, best_val, val_L, test_L, fed, epochStart, minSeen,
                   nonImprov>>

\* One batch of the loop: forward without recording, the summed loss of the batch
\* (any value the model may produce) and its size are accumulated.
EvaluateBatchWithStep ==
    /\ pc = "eval_loop"
    /\ i < Len(data[evalSeg])
    /\ fed' = hidden
    /\ hidden' = Forward(hidden, callId, i + 1, FALSE)
    /\ \E l \in LossVals : total_L' = total_L + l
    /\ ntotal' = ntotal + LSize(data[evalSeg][i + 1])
    /\ i' = i + 1
    /\ params' = params + 1
    /\ stepLr' = trainer_lr
    /\ UNCHANGED <<pc, T, data, trainer_lr, lr, lr_arg, epochs, epoch,
                   best_val, val_L, test_L, callId, evalSeg, log, epochStart,
                   minSeen, nonImprov>>

EvaluateBatch ==
    /\ pc = "eval_loop"
    /\ i < Len(data[evalSeg])
    /\ fed' = hidden
    /\ hidden' = Forward(hidden, callId, i + 1, FALSE)
    /\ \E l \in LossVals : total_L' = total_L + l
    /\ ntotal' = ntotal + LSize(data[evalSeg][i + 1])
    /\ i' = i + 1
    /\ UNCHANGED <<pc, T, data, trainer_lr, params, stepLr, lr, lr_arg, epochs,
                   epoch, best_val, val_L, test_L, callId, evalSeg, log,
                   epochStart, minSeen, nonImprov>>

\* return total_L / ntotal, assigned to val_L or test_L by the caller; an
\* exception leaves train() through every frame, nothing catches it.
EvaluateReturn ==
    /\ pc = "eval_loop"
    /\ i = Len(data[evalSeg])
    /\ LET q == Divide(total_L, ntotal)
           r == [num |-> q.num, den |-> q.den]
       IN  /\ pc' = IF ~q.ok THEN "aborted"
                    ELSE IF evalSeg = "val" THEN "val_done" ELSE "test_done"
           /\ val_L' = IF q.ok /\ evalSeg = "val" THEN r ELSE val_L
           /\ test_L' = IF q.ok /\ evalSeg = "test" THEN r ELSE test_L
    /\ UNCHANGED <<T, data, trainer_lr, params, stepLr, lr, lr_arg, epochs,
                   epoch, best_val, hidden, fed, callId, i, evalSeg, total_L,
                   ntotal, log, epochStart, minSeen, nonImprov>>

\* ------------------------------------------------- train(), continued
\* if val_L < best_val: best_val = val_L; test_L = evaluate(test_data) ...
\* else: lr = lr*0.25; trainer.set_learning_rate(lr)
EpochDecideAlwaysTest ==
    /\ pc = "val_done"
    /\ minSeen' = MinOf(minSeen, val_L)
    /\ nonImprov' = IF Less(val_L, minSeen) THEN nonImprov ELSE nonImprov + 1
    /\ IF Improves(val_L, best_val)
       THEN /\ best_val' = NewBest(val_L, best_val)
            /\ log' = Append(log, "best")
            /\ pc' = "test_call"
            /\ UNCHANGED <<lr, trainer_lr>>
       ELSE /\ lr' = DecayLr(lr)
            /\ trainer_lr' = DecayLr(lr)
            /\ log' = Append(log, "decay")
            /\ pc' = "test_call"
            /\ UNCHANGED best_val
    /\ UNCHANGED <<T, data, params, stepLr, lr_arg, epochs, epoch, val_L,
                   test_L, hidden, fed, callId, i, evalSeg, total_L, ntotal,
                   epochStart>>

EpochDecide ==
    /\ pc = "val_done"
    /\ minSeen' = MinOf(minSeen, val_L)
    /\ nonImprov' = IF Less(val_L, minSeen) THEN nonImprov ELSE nonImprov + 1
    /\ IF Improves(val_L, best_val)
       THEN /\ best_val' = NewBest(val_L, best_val)
            /\ log' = Append(log, "best")
            /\ pc' = "test_call"
            /\ UNCHANGED <<lr, trainer_lr>>
       ELSE /\ lr' = DecayLr(lr)
            /\ trainer_lr' = DecayLr(lr)
            /\ log' = Append(log, "decay")
            /\ pc' = "epoch_end"
            /\ UNCHANGED best_val
    /\ UNCHANGED <<T, data, params, stepLr, lr_arg, epochs, epoch, val_L,
                   test_L, hidden, fed, callId, i, evalSeg, total_L, ntotal,
                   epochStart>>

\* The test evaluation has returned and its loss is printed.
TestReported ==
    /\ pc = "test_done"
    /\ pc' = "epoch_end"
    /\ UNCHANGED <<T, data, trainer_lr, params, stepLr, lr, lr_arg, epochs,
                   epoch, best_val, val_L, test_L, hidden, fed, callId, i,
                   evalSeg, total_L, ntotal, log, epochStart, minSeen,
                   nonImprov>>

\* End of the loop body: the next epoch, or the final throughput line.
EpochEnd ==
    /\ pc = "epoch_end"
    /\ epoch' = epoch + 1
    /\ pc' = LoopTo(epoch + 1, epochs)
    /\ UNCHANGED <<T, data, trainer_lr, params, stepLr, lr, lr_arg, epochs,
                   best_val, val_L, test_L, hidden, fed, callId, i, evalSeg,
                   total_L, ntotal, log, epochStart, minSeen, nonImprov>>

Next ==
    \/ Batchify
    \/ TrainCall
    \/ TrainOneEpochBegin
    \/ TrainBatch
    \/ TrainOneEpochEnd
    \/ EvaluateBegin
    \/ EvaluateBatch
    \/ EvaluateReturn
    \/ EpochDecide
    \/ TestReported
    \/ EpochEnd

Spec == Init /\ [][Next]_vars

\* ---------------------------------------- batchification of any corpus
InitCorpus ==
    \E t \in 0..MaxTokens : InitWith(t, SegTokens(1), SegTokens(1))

SpecBatchify == InitCorpus /\ [][Batchify]_vars


\* ============================================================ claims
InTrain == pc \notin {"cell4", "cell9"}
InEpoch == InTrain /\ log # <<>>
TestRunning == evalSeg = "test" /\ pc \in {"eval_loop", "aborted"}
\* The comparison of this epoch's val_L with best_val has been made.
Decided ==
    \/ pc \in {"test_call", "test_done", "epoch_end"}
    \/ TestRunning
    \/ pc \in {"epoch_start", "done"} /\ epoch > 0
LogImproved == <<"train", "val", "best", "test">>
LogDecayed == <<"train", "val", "decay">>
IsPrefix(s, t) == Len(s) <= Len(t) /\ \A j \in 1..Len(s) : s[j] = t[j]
TokensPerBatch == batch_size * bptt

\* C1: the learning rate of train() is its lr argument times 0.25^k, k the
\* number of epochs so far whose validation loss did not improve on the least
\* seen before; within an epoch it differs from its value at the epoch's start
\* only after the decay branch, and then it is a quarter of it.
C1_LrIsArgTimesQuarterPowK ==
    InTrain =>
        /\ lr * (4 ^ nonImprov) = lr_arg
        /\ InEpoch =>
              IF Decided /\ log = LogDecayed
              THEN lr * 4 = epochStart.lr
              ELSE lr = epochStart.lr

C1_Witness ==
    /\ pc = "done"
    /\ nonImprov = 2
    /\ epoch = 3
    /\ lr * 16 = lr_arg

\* C2: best_val starts at +infinity, is after every epoch the least of the
\* validation losses returned so far, and is never raised.
C2_BestIsMinSeen ==
    InTrain =>
        /\ (epoch = 0 /\ pc \in {"epoch_start", "train_loop", "val_call"})
              => best_val = Inf
        /\ pc # "val_done" => Same(best_val, minSeen)
        /\ InEpoch => ~Less(epochStart.best, best_val)
        /\ Decided => ~Less(val_L, best_val)

C2_Witness ==
    /\ pc = "done"
    /\ epoch = 3
    /\ Less(best_val, val_L)
    /\ Less(best_val, Inf)

\* C3: an epoch does train, validate and then exactly one of: record the new
\* best and evaluate the test segment (lr untouched), when val_L is strictly
\* below the best so far; or decay the learning rate with no test
\* evaluation, otherwise.  The test evaluation never precedes the validation.
C3_ExactlyOneBranch ==
    InEpoch =>
        /\ IsPrefix(log, LogImproved) \/ IsPrefix(log, LogDecayed)
        /\ pc = "epoch_end" =>
              IF Less(val_L, epochStart.best)
              THEN /\ log = LogImproved
                   /\ best_val = val_L
                   /\ lr = epochStart.lr
                   /\ trainer_lr = epochStart.tlr
              ELSE /\ log = LogDecayed
                   /\ best_val = epochStart.best
                   /\ lr * 4 = epochStart.lr
                   /\ trainer_lr = lr

C3_Witness ==
    /\ pc = "epoch_end"
    /\ epoch = 1
    /\ log = LogImproved
    /\ Less(val_L, epochStart.best)
    /\ epochStart.best # Inf

\* C4: a validation loss equal to the best so far is no improvement: best_val
\* stays, the learning rate is quartered and set on the trainer, and the test
\* segment is not evaluated.
C4_EqualIsNoImprovement ==
    (InEpoch /\ Decided /\ Same(val_L, epochStart.best)) =>
        /\ best_val = epochStart.best
        /\ lr * 4 = epochStart.lr
        /\ trainer_lr = lr
        /\ log = LogDecayed

C4_Witness ==
    /\ pc = "epoch_end"
    /\ epochStart.best # Inf
    /\ Same(val_L, epochStart.best)
    /\ log = LogDecayed

\* C5: every training epoch and every evaluate() call starts from the all-zero
\* hidden state, never from a state an earlier call produced, and inside a
\* call the state returned for batch i is the one fed to batch i+1.
C5_HiddenResetAndCarried ==
    pc \in {"train_loop", "eval_loop"} =>
        /\ i = 0 => hidden = zeros(batch_size)
        /\ i >= 1 =>
              /\ fed = IF i = 1 THEN zeros(batch_size)
                       ELSE [call |-> callId, n |-> i - 1, graph |-> FALSE,
                             bs |-> batch_size]
              /\ hidden.call = callId
              /\ hidden.n = i

C5_Witness ==
    /\ pc = "eval_loop"
    /\ evalSeg = "test"
    /\ epoch = 1
    /\ i = 2
    /\ fed = [call |-> callId, n |-> 1, graph |-> FALSE, bs |-> batch_size]

C7_TokenCount ==
    /\ pc = "eval_loop" => ntotal = TokensPerBatch * i
    /\ pc = "val_done" =>
          /\ val_L.den = TokensPerBatch * Len(data["val"])
          /\ val_L.num = total_L
    /\ pc = "test_done" =>
          /\ test_L.den = TokensPerBatch * Len(data["test"])
          /\ test_L.num = total_L

C7_Witness ==
    /\ pc = "val_done"
    /\ Len(data["val"]) = 2
    /\ val_L.den = 2 * TokensPerBatch
    /\ val_L.num > 0

C9_StepUsesLoopLr ==
    (pc = "train_loop" /\ i >= 1) => stepLr = lr

\* C10 (as stated): when evaluate() fails on a segment without batches, the run
\* aborts before best_val or the learning rate is updated in that epoch.
C10_Original ==
    pc = "aborted" =>
        /\ best_val = epochStart.best
        /\ lr = epochStart.lr

\* C10 (amended): evaluate() returns only for a segment of at least one batch;
\* on a segment of none ntotal is 0 and the division fails, which aborts
\* train() in that epoch with the learning rate not updated.  best_val is not
\* updated when the failing call is the validation evaluation, and is
\* already that epoch's val_L when it is the test evaluation.
C10_AbortOnEmptySegment ==
    /\ pc \in {"val_done", "test_done"} => Len(data[evalSeg]) >= 1
    /\ pc = "aborted" =>
          /\ Len(data[evalSeg]) = 0
          /\ ntotal = 0
          /\ epoch = epochStart.epoch
          /\ lr = epochStart.lr
          /\ trainer_lr = epochStart.tlr
          /\ evalSeg = "val" => (best_val = epochStart.best /\ log = <<"train", "val">>)
          /\ evalSeg = "test" => (best_val = val_L /\ log = LogImproved)

C10_Witness ==
    /\ pc = "aborted"
    /\ evalSeg = "test"
    /\ Len(data["val"]) >= 1
    /\ best_val # epochStart.best

=============================================================================
